---- MODULE Spec2Model ----
(***************************************************************************)
(* The loan calculator of main.py: the request validation of LoanInput and *)
(* the amortization loop of calculate_loan, as a state machine.            *)
(*                                                                         *)
(* Python floats are IEEE-754 binary64 numbers.  They are modelled bit for *)
(* bit: a float is a sign, a 53-bit significand and a binary exponent, and *)
(* every arithmetic operation is the exact operation followed by rounding  *)
(* to nearest, ties to even.  Significands do not fit TLC's integers, so   *)
(* they are held as little-endian sequences of 13-bit limbs.  The one     *)
(* operation that is not rounded to nearest is the power (1 + r) ** n,     *)
(* which is the C library's pow(): it yields a float next to the exact     *)
(* power, and which of the two is left open.                               *)
(***************************************************************************)
EXTENDS Integers, Sequences, FiniteSets, TLC

(***************************************************************************)
(* Natural numbers of any size.                                            *)
(***************************************************************************)
Base == 2^13

LimbBits == CHOOSE k \in 1..15 : 2^k = Base

\* a without its leading zero limbs
BTrim(a) ==
    IF \A i \in 1..Len(a) : a[i] = 0 THEN <<>>
    ELSE SubSeq(a, 1, CHOOSE i \in 1..Len(a) :
                         a[i] # 0 /\ \A j \in (i + 1)..Len(a) : a[j] = 0)

BLimb(a, i) == IF i >= 1 /\ i <= Len(a) THEN a[i] ELSE 0

BMaxLen(a, b) == IF Len(a) >= Len(b) THEN Len(a) ELSE Len(b)

\* The number whose i-th column is cols[i], each column in 0..(2 * Base - 2):
\* a carry enters column i when a column below it overflows and every
\* column between the two is full.
RECURSIVE BCarry(_, _)
BCarry(cols, i) ==
    IF i = 1 THEN FALSE
    ELSE IF cols[i - 1] >= Base THEN TRUE
    ELSE cols[i - 1] = Base - 1 /\ BCarry(cols, i - 1)

BNorm(cols) ==
    BTrim([i \in 1..(Len(cols) + 1) |->
             (BLimb(cols, i) + (IF BCarry(cols, i) THEN 1 ELSE 0)) % Base])

BAdd(a, b) == BNorm([i \in 1..BMaxLen(a, b) |-> BLimb(a, i) + BLimb(b, i)])

\* a - b, for a >= b: a borrow enters column i when a column below it is
\* negative and every column between the two is zero.
BSub(a, b) ==
    LET cols == [i \in 1..Len(a) |-> a[i] - BLimb(b, i)]
        borrow(i) == \E j \in 1..(i - 1) :
                        cols[j] < 0 /\ \A k \in (j + 1)..(i - 1) : cols[k] = 0
    IN  BTrim([i \in 1..Len(a) |-> (cols[i] - (IF borrow(i) THEN 1 ELSE 0)) % Base])

\* -1, 0 or 1 as a < b, a = b or a > b
BCmp(a, b) ==
    IF Len(a) > Len(b) THEN 1
    ELSE IF Len(a) < Len(b) THEN -1
    ELSE IF \A i \in 1..Len(a) : a[i] = b[i] THEN 0
    ELSE LET top == CHOOSE i \in 1..Len(a) :
                       a[i] # b[i] /\ \A j \in (i + 1)..Len(a) : a[j] = b[j]
         IN  IF a[top] > b[top] THEN 1 ELSE -1

\* a * k, for 0 <= k <= Base
BMulSmall(a, k) ==
    BNorm([i \in 1..(Len(a) + 1) |->
             ((BLimb(a, i) * k) % Base) + ((BLimb(a, i - 1) * k) \div Base)])

\* a * Base^q
BShiftLimbs(a, q) ==
    IF Len(a) = 0 THEN <<>> ELSE [i \in 1..(Len(a) + q) |-> IF i <= q THEN 0 ELSE a[i - q]]

\* a * (b[lo] * Base^(lo-1) + ... + b[hi] * Base^(hi-1))
RECURSIVE BMulRange(_, _, _, _)
BMulRange(a, b, lo, hi) ==
    IF lo = hi THEN BShiftLimbs(BMulSmall(a, b[lo]), lo - 1)
    ELSE LET mid == (lo + hi) \div 2
         IN  BAdd(BMulRange(a, b, lo, mid), BMulRange(a, b, mid + 1, hi))

BMul(a, b) == IF Len(a) = 0 \/ Len(b) = 0 THEN <<>> ELSE BMulRange(a, b, 1, Len(b))

\* a * 2^s
BShl(a, s) == BShiftLimbs(BMulSmall(a, 2^(s % LimbBits)), s \div LimbBits)

\* floor(a / 2^s)
BShr(a, s) ==
    LET q == s \div LimbBits
        t == s % LimbBits
    IN  IF q >= Len(a) THEN <<>>
        ELSE BTrim([i \in 1..(Len(a) - q) |->
                      (a[i + q] \div 2^t) + (BLimb(a, i + q + 1) % 2^t) * 2^(LimbBits - t)])

IntBitLen(x) == CHOOSE k \in 0..LimbBits : x < 2^k /\ (k = 0 \/ x >= 2^(k - 1))

BBitLen(a) == IF Len(a) = 0 THEN 0 ELSE (Len(a) - 1) * LimbBits + IntBitLen(a[Len(a)])

\* bit i of a, the lowest being bit 0
BBit(a, i) ==
    IF i < 0 THEN 0 ELSE (BLimb(a, (i \div LimbBits) + 1) \div 2^(i % LimbBits)) % 2

\* whether a bit of a below bit i is set
BLowNonzero(a, i) ==
    /\ i > 0
    /\ \/ \E j \in 1..(i \div LimbBits) : BLimb(a, j) # 0
       \/ BLimb(a, (i \div LimbBits) + 1) % 2^(i % LimbBits) # 0

\* the limbs of an int x, 0 <= x < 2^31
BFromInt(x) == BTrim(<<x % Base, (x \div Base) % Base, x \div (Base * Base)>>)

\* <<floor(a / k), a mod k>> for 0 < k < Base, the highest limb first
RECURSIVE BDivSmall(_, _)
BDivSmall(a, k) ==
    IF Len(a) = 0 THEN <<<<>>, 0>>
    ELSE LET hi == BDivSmall(Tail(a), k)
             cur == hi[2] * Base + a[1]
         IN  <<BTrim(<<cur \div k>> \o hi[1]), cur % k>>

\* the number of zero bits below the lowest set bit of a, for a > 0
BTrailingZeros(a) ==
    CHOOSE i \in 0..(BBitLen(a) - 1) : BBit(a, i) = 1 /\ ~BLowNonzero(a, i)

RECURSIVE BPow(_, _)
BPow(a, k) ==
    IF k = 0 THEN <<1>>
    ELSE LET h == BPow(a, k \div 2)
         IN  IF k % 2 = 0 THEN BMul(h, h) ELSE BMul(BMul(h, h), a)

(***************************************************************************)
(* binary64 floats: [s |-> -1, 0 or 1, m |-> significand, e |-> exponent], *)
(* of value s * m * 2^e.  The significand of a normal float has exactly    *)
(* MantBits bits; that of a subnormal float has fewer, at the exponent     *)
(* MinExp.  An infinity has an empty significand and the exponent          *)
(* MaxExp + 1, and so has the NaN, whose sign is 0.  The two zeros of      *)
(* binary64 are one value here: they compare equal and round to the same   *)
(* amount, and Python's division raises on both.  An operation that raises *)
(* in Python yields Raise(kind), the exception in place of a float.        *)
(***************************************************************************)
MantBits == 53

\* The exponents of the lowest bit of the smallest and of the largest float.
MinExp == -1074

MaxExp == 971

FZero == [s |-> 0, m |-> <<>>, e |-> 0]

FInf(s) == [s |-> s, m |-> <<>>, e |-> MaxExp + 1]

FNaN == [s |-> 0, m |-> <<>>, e |-> MaxExp + 1]

IsNaN(x) == x = FNaN

IsInf(x) == x.s # 0 /\ x.m = <<>>

Raise(kind) == [raise |-> kind]

Raised(v) == "raise" \in DOMAIN v

\* The float of sign s, significand m and exponent e, or the infinity when
\* its magnitude is 2^1024 or more
FPack(s, m, e) ==
    IF Len(m) = 0 THEN FZero
    ELSE IF e > MaxExp THEN FInf(s)
    ELSE [s |-> s, m |-> m, e |-> e]

\* s * m * 2^e (plus, with sticky, a positive amount below 2^e; m then has
\* more than MantBits bits), rounded to a float: to "nearest", ties to even,
\* or to the float next to it "below" or "above" in magnitude
FRoundTo(s, m, e, sticky, dir) ==
    LET len == BBitLen(m)
        normal == e + len - MantBits
        t == IF normal < MinExp THEN MinExp ELSE normal
    IN  IF Len(m) = 0 \/ s = 0 THEN FZero
        ELSE IF t <= e THEN FPack(s, BShl(m, e - t), t)
        ELSE LET d == t - e
                 q == BShr(m, d)
                 half == BBit(m, d - 1) = 1
                 low == sticky \/ BLowNonzero(m, d - 1)
                 up == IF dir = "nearest" THEN half /\ (low \/ BBit(q, 0) = 1)
                       ELSE dir = "above" /\ (half \/ low)
                 q2 == IF up THEN BAdd(q, <<1>>) ELSE q
             IN  IF BBitLen(q2) > MantBits
                 THEN FPack(s, BShr(q2, 1), t + 1)
                 ELSE FPack(s, q2, t)

FRound(s, m, e, sticky) == FRoundTo(s, m, e, sticky, "nearest")

\* float(k) of an int k
FFromInt(k) ==
    IF k = 0 THEN FZero
    ELSE FRound(IF k > 0 THEN 1 ELSE -1, BFromInt(IF k > 0 THEN k ELSE -k), 0, FALSE)

\* The arithmetic below takes each operand's value once: x and y are bound
\* to a and b, and the result is computed from these.

FNeg(x) == CHOOSE z \in { [a EXCEPT !.s = -a.s] : a \in {x} } : TRUE

\* abs(x)
FAbs(x) == CHOOSE z \in { [a EXCEPT !.s = a.s * a.s] : a \in {x} } : TRUE

\* -1, 0 or 1 as |x| < |y|, |x| = |y| or |x| > |y|, for non-zero x and y
FCmpMag(x, y) ==
    IF x.e > y.e THEN 1 ELSE IF x.e < y.e THEN -1 ELSE BCmp(x.m, y.m)

\* -1, 0 or 1 as x < y, x = y or x > y, and 2 when one of them is the NaN
FCmp(x, y) ==
    CHOOSE z \in
        { IF IsNaN(a) \/ IsNaN(b) THEN 2
          ELSE IF a.s # b.s THEN (IF a.s < b.s THEN -1 ELSE 1)
          ELSE IF a.s = 0 THEN 0
          ELSE a.s * FCmpMag(a, b) :
            a \in {x}, b \in {y} } : TRUE

FLt(x, y) == FCmp(x, y) = -1
FLe(x, y) == FCmp(x, y) \in {-1, 0}
FGt(x, y) == FCmp(x, y) = 1
FEq(x, y) == FCmp(x, y) = 0

FMul(x, y) ==
    CHOOSE z \in
        { IF IsNaN(a) \/ IsNaN(b) THEN FNaN
          ELSE IF IsInf(a) \/ IsInf(b)
          THEN (IF a.s = 0 \/ b.s = 0 THEN FNaN ELSE FInf(a.s * b.s))
          ELSE IF a.s = 0 \/ b.s = 0 THEN FZero
          ELSE CHOOSE w \in { FRound(a.s * b.s, m, a.e + b.e, FALSE) :
                                m \in { BMul(a.m, b.m) } } : TRUE :
            a \in {x}, b \in {y} } : TRUE

\* x + y for finite non-zero x, y with |x| >= |y|
FAddOrdered(x, y) ==
    LET d == x.e - y.e
    IN  IF d > MantBits + 2 THEN x
        ELSE CHOOSE z \in
                 { FRound(x.s, m, y.e, FALSE) :
                     m \in { IF x.s = y.s THEN BAdd(xm, y.m) ELSE BSub(xm, y.m) :
                               xm \in { BShl(x.m, d) } } } : TRUE

FAdd(x, y) ==
    CHOOSE z \in
        { IF IsNaN(a) \/ IsNaN(b) THEN FNaN
          ELSE IF IsInf(a) THEN (IF IsInf(b) /\ b.s # a.s THEN FNaN ELSE a)
          ELSE IF IsInf(b) THEN b
          ELSE IF a.s = 0 THEN b
          ELSE IF b.s = 0 THEN a
          ELSE IF FCmpMag(a, b) >= 0 THEN FAddOrdered(a, b) ELSE FAddOrdered(b, a) :
            a \in {x}, b \in {y} } : TRUE

FSub(x, y) == FAdd(x, FNeg(y))

\* A significand as two ints, its bits above and below bit 26.
Half == Base * Base

BHi(m) == m[3] + Base * (m[4] + Base * m[5])

BLo(m) == m[1] + Base * m[2]

\* Long division, one quotient bit a step, of rem = rh * Half + rl by
\* d = dh * Half + dl, for rem < d: <<q', rh', rl'>> with
\* (q * d + rem) * 2^k = q' * d + rem'
RECURSIVE FDivBits(_, _, _, _, _, _)
FDivBits(rh, rl, dh, dl, q, k) ==
    IF k = 0 THEN <<q, rh, rl>>
    ELSE LET l2 == (2 * rl) % Half
             h2 == 2 * rh + (2 * rl) \div Half
         IN  IF h2 > dh \/ (h2 = dh /\ l2 >= dl)
             THEN FDivBits(h2 - dh - (IF l2 < dl THEN 1 ELSE 0), (l2 - dl) % Half,
                           dh, dl, 2 * q + 1, k - 1)
             ELSE FDivBits(h2, l2, dh, dl, 2 * q, k - 1)

\* The next k limbs of the quotient, the highest limb first:
\* <<limbs, rh', rl'>>
RECURSIVE FDivLimbs(_, _, _, _, _)
FDivLimbs(rh, rl, dh, dl, k) ==
    IF k = 0 THEN <<<<>>, rh, rl>>
    ELSE LET hd == FDivBits(rh, rl, dh, dl, 0, LimbBits)
             tl == FDivLimbs(hd[2], hd[3], dh, dl, k - 1)
         IN  <<tl[1] \o <<hd[1]>>, tl[2], tl[3]>>

\* A finite non-zero x with its significand moved up to MantBits bits.
FNormal(x) ==
    LET up == MantBits - BBitLen(x.m)
    IN  [s |-> x.s, m |-> BShl(x.m, up), e |-> x.e - up]

\* x / y for finite non-zero x and y: the quotient of the significands to
\* 5 * LimbBits bits and whether a remainder is left, rounded once
FDivFinite(x, y) ==
    LET first == BCmp(x.m, y.m) >= 0
    IN  CHOOSE z \in
            { FRound(x.s * y.s, BTrim(qr[1] \o <<IF first THEN 1 ELSE 0>>),
                     x.e - y.e - 5 * LimbBits, qr[2] # 0 \/ qr[3] # 0) :
                qr \in { FDivLimbs(BLimb(rem, 3) + Base * (BLimb(rem, 4) + Base * BLimb(rem, 5)),
                                   BLimb(rem, 1) + Base * BLimb(rem, 2),
                                   BHi(y.m), BLo(y.m), 5) :
                           rem \in { IF first THEN BSub(x.m, y.m) ELSE x.m } } } : TRUE

\* x / y: Python raises ZeroDivisionError when y is zero
FDiv(x, y) ==
    CHOOSE z \in
        { IF b = FZero THEN Raise("ZeroDivisionError")
          ELSE IF IsNaN(a) \/ IsNaN(b) THEN FNaN
          ELSE IF IsInf(a) THEN (IF IsInf(b) THEN FNaN ELSE FInf(a.s * b.s))
          ELSE IF IsInf(b) \/ a.s = 0 THEN FZero
          ELSE CHOOSE w \in { FDivFinite(na, nb) :
                                na \in { FNormal(a) }, nb \in { FNormal(b) } } : TRUE :
            a \in {x}, b \in {y} } : TRUE

\* <<m, e>> with x ** k = m * 2^e exactly, for a finite x > 0 and an int
\* k >= 0
FPowExact(x, k) ==
    CHOOSE z \in { <<BPow(BShr(x.m, tz), k), (x.e + tz) * k>> :
                     tz \in { BTrailingZeros(x.m) } } : TRUE

\* The float next to the power pw, "below" or "above" it: Python raises
\* OverflowError when the result is out of range.
FPowRound(pw, dir) ==
    CHOOSE z \in { IF IsInf(y) THEN Raise("OverflowError") ELSE y :
                     y \in { FRoundTo(1, pw[1], pw[2], FALSE, dir) } } : TRUE

\* x ** k for a finite x > 0 and an int k >= 0, which is the pow() of the C
\* library: a float next to the exact power, "below" or "above" it, and the
\* exact power when that is a float.  Python raises OverflowError when the
\* result is out of range.
FPow(x, k, dir) == CHOOSE z \in { FPowRound(pw, dir) : pw \in { FPowExact(x, k) } } : TRUE

\* The values x ** k can have, which of them being up to the C library.
FPowOutcomes(x, k) ==
    UNION { { FPowRound(pw, "below"), FPowRound(pw, "above") } :
              pw \in { FPowExact(x, k) } }

\* The integer nearest to |x| * scale, ties to even, of a finite x # 0 whose
\* lowest bit is below a unit.
FScaledUnits(x, scale) ==
    LET big == BMulSmall(x.m, scale)
        d == -x.e
        q == BShr(big, d)
        up == /\ BBit(big, d - 1) = 1
              /\ (BLowNonzero(big, d - 1) \/ BBit(q, 0) = 1)
    IN  IF up THEN BAdd(q, <<1>>) ELSE q

\* round(x, digits), scale being 10^digits: the exact value of x rounded to
\* a multiple of 1 / scale, to nearest, ties to even, and the float nearest
\* to that decimal, which is the quotient of its units by scale, taken to
\* 5 * LimbBits bits below the point and whether a remainder is left, and
\* rounded once.  A float whose lowest bit is a unit or more is an integer
\* and rounds to itself, as do the infinities and the NaN.
FRoundScaled(x, scale) ==
    CHOOSE y \in
        { IF IsNaN(a) \/ IsInf(a) \/ a.s = 0 \/ a.e >= 0 THEN a
          ELSE CHOOSE z \in
                   { FRound(a.s, quot[1], -(5 * LimbBits), quot[2] # 0) :
                       quot \in { BDivSmall(BShl(units, 5 * LimbBits), scale) :
                                    units \in { FScaledUnits(a, scale) } } } : TRUE :
            a \in {x} } : TRUE

\* max(x, y)
FMax(x, y) == CHOOSE z \in { IF FGt(b, a) THEN b ELSE a : a \in {x}, b \in {y} } : TRUE

\* The float a decimal literal of k thousandths denotes: the binary64 number
\* nearest to k / 1000
Dec(k) == FDiv(FFromInt(k), FFromInt(1000))

\* a * 10^j
RECURSIVE BMulPow10(_, _)
BMulPow10(a, j) ==
    IF j = 0 THEN a
    ELSE CHOOSE z \in { BMulPow10(b, j - 1) : b \in { BMulSmall(a, 10) } } : TRUE

\* <<the quotient of a by 1000^j, whether a remainder is left or rem holds>>
RECURSIVE BDivThousands(_, _, _)
BDivThousands(a, j, rem) ==
    IF j = 0 THEN <<a, rem>>
    ELSE CHOOSE z \in { BDivThousands(qr[1], j - 1, rem \/ qr[2] # 0) :
                          qr \in { BDivSmall(a, 1000) } } : TRUE

\* The bits a numerator is moved up by before the division by 10^18, for
\* it to have 10 * LimbBits bits and the quotient more than MantBits.
DecShift(num) ==
    IF BBitLen(num) >= 10 * LimbBits THEN 0 ELSE 10 * LimbBits - BBitLen(num)

\* The float a decimal literal of k thousandths and tail further units of
\* 10^-18, times 10^exp, denotes: the binary64 number nearest to
\* (k * 10^15 + tail) * 10^exp / 10^18, for k and tail of one sign
DecLiteral(k, tail, exp) ==
    IF k = 0 /\ tail = 0 THEN FZero
    ELSE CHOOSE z \in
           { CHOOSE y \in
               { FRound(IF k < 0 \/ tail < 0 THEN -1 ELSE 1, qr[1], -up, qr[2]) :
                   up \in { DecShift(num) },
                   qr \in { BDivThousands(BShl(num, DecShift(num)), 6, FALSE) } } : TRUE :
               num \in { BMulPow10(
                           BAdd(BMulPow10(BFromInt(IF k < 0 THEN -k ELSE k), 15),
                                BFromInt(IF tail < 0 THEN -tail ELSE tail)),
                           exp) } } : TRUE

\* round(x, 2) and round(x, 3)
Round2(x) == FRoundScaled(x, 100)
Round3(x) == FRoundScaled(x, 1000)

(***************************************************************************)
(* The inputs.  A payload gives principal, annual_rate and extra_payment   *)
(* in thousandths (1000000 is 1000.0, 5 is 0.005) and term_months as an    *)
(* int.  A principal written with more digits has the digits after the     *)
(* thousandths in principal_tail, in units of 10^-18, and one written with *)
(* an exponent has the power of ten in principal_exp: 15 with tail 5 is    *)
(* 0.015000000000000005, and 1000000 with exponent 11 is 1e14.  The        *)
(* amounts of a schedule entry and of a result are floats.                 *)
(***************************************************************************)
MaxTerm == 3
MaxPrincipalSteps == 2
LongTerm == 3602

FailSafe == 3600
SafetyMargin == 600
ToleranceMilli == 5

PayloadOf(p, tail, exp, a, t, x) ==
    [principal |-> p, principal_tail |-> tail, principal_exp |-> exp,
     annual_rate |-> a, term_months |-> t, extra_payment |-> x]

Payload(p, a, t, x) == PayloadOf(p, 0, 0, a, t, x)

\* Everyday loans: 500.00, 1000.00, ... at 0 %, 5 % and 12 % over 1..MaxTerm
\* months, with no extra payment, one cent or 100.00 a month.
ShortInputs ==
    { Payload(500000 * k, a, t, x) :
        k \in 1..MaxPrincipalSteps, a \in {0, 5000, 12000}, t \in 1..MaxTerm,
        x \in {0, 10, 100000} }

\* Interest-free loans whose instalment is near the balance tolerance, and
\* one whose thirds are not binary fractions.
SmallInputs ==
    { Payload(4, 0, 3, 0), Payload(10, 0, 2, 0), Payload(30, 0, 3, 0),
      Payload(1000, 0, 1000 - MaxTerm, 0), Payload(100000, 0, 3, 0),
      Payload(6, 0, 1, 0), Payload(11, 0, 2, 0), Payload(16, 0, 3, 0),
      Payload(5002, 0, 1000, 0), PayloadOf(15, 5, 0, 0, 3, 0) }

\* Interest-free loans of 1e10, 1e11 and 1e14, whose balance is rounded at
\* each payment by an amount that adds up to near or beyond the tolerance.
LargeInputs ==
    { PayloadOf(1000000, 0, 7, 0, 3, 0), PayloadOf(1000000, 0, 8, 0, FailSafe, 0),
      PayloadOf(1000000, 0, 11, 0, 3, 0) }

\* Terms at the fail-safe and beyond it, a loan over the longest term whose
\* safety cap is within the fail-safe, at a rate at which the payment
\* exceeds the interest by less than the balance can be reduced by, and a
\* rate and terms whose growth factor (1 + r) ** n exceeds 2^MantBits, makes
\* P * (r * (1 + r) ** n) overflow, and is itself out of range.
LongInputs ==
    { Payload(3600000, 0, FailSafe, 0),
      Payload(27000, 300000, FailSafe - SafetyMargin, 0),
      Payload(LongTerm * 1000, 0, LongTerm, 0),
      Payload(1000000, 1200000, 60, 0),
      Payload(1000000, 1200000, MaxExp + MantBits - 1, 0),
      Payload(1000000, 1200000, MaxExp + MantBits, 0),
      Payload(10000000, 5000, 12, 0) }

ValidInputs == ShortInputs \cup SmallInputs \cup LargeInputs \cup LongInputs

\* Payloads LoanInput rejects; a caller that builds the payload without
\* validation can still hand them to calculate_loan.
InvalidInputs ==
    { Payload(0, 5000, 3, 0), Payload(-1000000, 5000, 3, 0),
      Payload(1000000, 5000, 0, 0), Payload(1000000, -1000, 3, 0),
      Payload(1000000, 12000, 3, -5000), Payload(1000000, 0, 3, -5000),
      Payload(1000000, 12000, 3, -500000), Payload(1000000, 0, 3, -500000) }

Inputs == ValidInputs \cup InvalidInputs

\* The payloads calculate_loan is called with directly: the invalid ones and
\* the valid ones of a few steps.
DirectInputs ==
    InvalidInputs \cup ShortInputs \cup { p \in SmallInputs : p.term_months <= MaxTerm }

\* The requests of a client who asks again with other terms and extras.
SeqInputs == { p \in ShortInputs : p.principal = 500000 }

None == [none |-> TRUE]

NoPrev == [payload |-> None, status |-> 0, result |-> None, growth |-> FZero]

VARIABLES
    caller,         \* "http": the route, which validates; "direct": a call of the function
    payload,        \* the request body
    pc,             \* where the request is
    status,         \* the response's status code, 0 while there is none
    error,          \* the kind of exception raised, "none" while there is none
    P, r, n, extra, \* calculate_loan's locals
    growth,         \* the value of (1 + r) ** n, FZero while it is not computed
    payment,
    balance,
    schedule,
    total_interest,
    month,
    clamped,        \* the months in which the final-month clamp was taken
    result,         \* the LoanResult returned, None while there is none
    prev            \* the client's record of the request answered before this one

vars == <<caller, payload, pc, status, error, P, r, n, extra, growth, payment, balance,
          schedule, total_interest, month, clamped, result, prev>>

locals == <<P, r, n, extra, growth, payment, balance, schedule, total_interest, month,
            clamped>>

\* A tolerance of five cents instead of half a cent.
ToleranceWide == Dec(10 * ToleranceMilli)

Tolerance == Dec(ToleranceMilli)

safety_cap == n + SafetyMargin

\* LoanInput's constraints: gt=0, ge=0, gt=0, ge=0
LoanInputValid(p) ==
    /\ p.principal > 0 \/ (p.principal = 0 /\ p.principal_tail > 0)
    /\ p.annual_rate >= 0
    /\ p.term_months > 0
    /\ p.extra_payment >= 0

Init ==
    /\ \/ caller = "http" /\ payload \in Inputs
       \/ caller = "direct" /\ payload \in DirectInputs
    /\ pc = "request"
    /\ status = 0
    /\ error = "none"
    /\ P = FZero /\ r = FZero /\ n = 0 /\ extra = FZero /\ growth = FZero
    /\ payment = FZero /\ balance = FZero /\ total_interest = FZero
    /\ schedule = <<>> /\ month = 0 /\ clamped = {}
    /\ result = None
    /\ prev = NoPrev

\* The request body is parsed into a LoanInput: the route answers 422 when a
\* constraint fails and otherwise calls calculate_loan.
Validate ==
    /\ pc = "request"
    /\ IF caller = "http" /\ ~LoanInputValid(payload)
       THEN pc' = "rejected" /\ status' = 422
       ELSE pc' = "call" /\ status' = status
    /\ UNCHANGED <<caller, payload, error, locals, result, prev>>

\* (1 + r) ** n: the C library computes the same power in every call, so a
\* request with the rate and term of the one before it has the same value.
GrowthOutcomes(rate, term) ==
    IF /\ prev.payload # None
       /\ prev.growth # FZero
       /\ prev.payload.annual_rate = payload.annual_rate
       /\ prev.payload.term_months = payload.term_months
    THEN {prev.growth}
    ELSE FPowOutcomes(FAdd(FFromInt(1), rate), term)

\* P * (r * (1 + r) ** n) / ((1 + r) ** n - 1), g being (1 + r) ** n, or
\* P / n at rate zero; the exception when the power or the division raises
base_payment(p, rate, term, g) ==
    IF FEq(rate, FZero) THEN FDiv(p, FFromInt(term))
    ELSE IF Raised(g) THEN g
    ELSE FDiv(FMul(p, FMul(rate, g)), FSub(g, FFromInt(1)))

\* The extra payment taken off the payment instead of added to it.
ScheduledPaymentMinus(base, x) == FSub(base, x)

\* payment = base_payment + extra
ScheduledPayment(base, x) == FAdd(base, x)

\* A check that lets a principal of zero through.
InputsRejectedStrict(p, term, annual_rate) ==
    FLt(p, FZero) \/ term <= 0 \/ annual_rate < 0

\* if P <= 0 or n <= 0 or payload.annual_rate < 0
InputsRejected(p, term, annual_rate) == FLe(p, FZero) \/ term <= 0 \/ annual_rate < 0

\* calculate_loan up to its loop: the locals, the check of the inputs, the
\* scheduled payment.  An OverflowError or ZeroDivisionError of line 66 is
\* not handled: the call ends with it and the route answers 500.
Enter ==
    /\ pc = "call"
    /\ \E p \in {DecLiteral(payload.principal, payload.principal_tail,
                            payload.principal_exp)},
          rate \in {FDiv(FDiv(Dec(payload.annual_rate), FFromInt(100)), FFromInt(12))},
          term \in {payload.term_months},
          x \in {Dec(payload.extra_payment)} :
           /\ P' = p /\ r' = rate /\ n' = term /\ extra' = x
           /\ IF InputsRejected(p, term, payload.annual_rate)
              THEN /\ pc' = "error" /\ status' = 400 /\ error' = "InvalidInput"
                   /\ UNCHANGED <<growth, payment, balance>>
              ELSE \E g \in (IF FEq(rate, FZero) THEN {FZero}
                             ELSE GrowthOutcomes(rate, term)) :
                     \E base \in {base_payment(p, rate, term, g)} :
                       /\ growth' = g
                       /\ IF Raised(base)
                          THEN /\ pc' = "error" /\ status' = 500
                               /\ error' = base.raise
                               /\ UNCHANGED <<payment, balance>>
                          ELSE /\ pc' = "while" /\ status' = status /\ error' = error
                               /\ payment' = ScheduledPayment(base, x)
                               /\ balance' = p
    /\ schedule' = <<>> /\ total_interest' = FZero /\ month' = 0
    /\ UNCHANGED <<caller, payload, clamped, result, prev>>

\* The locals the loop changes, and where the call is.
LoopState ==
    [balance |-> balance, total_interest |-> total_interest, schedule |-> schedule,
     month |-> month, clamped |-> clamped, pc |-> pc]

\* The loop's test: balance > 0.005 and month < safety_cap
LoopTest(s) == FGt(s.balance, Tolerance) /\ s.month < safety_cap

\* A guard that lets a payment equal to the interest through.
NonAmortizingStrict(principal_component) ==
    FLt(principal_component, FZero) /\ FGt(r, FZero)

\* if principal_component <= 0 and r > 0
NonAmortizing(principal_component) == FLe(principal_component, FZero) /\ FGt(r, FZero)

\* if principal_component > balance
Clamp(principal_component, bal) == FGt(principal_component, bal)

\* A clamp that forgets to take the clamped principal: the interest is added
\* to the whole scheduled payment.
PaymentActualUnclamped(clamp, interest_component, principal_component) ==
    IF clamp THEN FAdd(interest_component, payment) ELSE payment

\* payment_actual: interest_component + principal_component when the clamp
\* is taken, and payment otherwise
PaymentActual(clamp, interest_component, principal_component) ==
    IF clamp THEN FAdd(interest_component, principal_component) ELSE payment

\* A fail-safe that breaks in month 3600 already.
FailSafeHitEarly(m) == m >= FailSafe

\* if month > 3600
FailSafeHit(m) == m > FailSafe

\* One pass of the loop's body, from month += 1 to the fail-safe's break.
Body(s) ==
    LET interest_component == FMul(s.balance, r)
        scheduled == FSub(payment, interest_component)
    IN  IF NonAmortizing(scheduled)
        THEN [s EXCEPT !.month = s.month + 1, !.pc = "error"]
        ELSE LET clamp == Clamp(scheduled, s.balance)
                 principal_component == IF clamp THEN s.balance ELSE scheduled
                 payment_actual ==
                     PaymentActual(clamp, interest_component, principal_component)
                 remaining == FSub(s.balance, principal_component)
             IN  [balance |-> remaining,
                  total_interest |-> FAdd(s.total_interest, interest_component),
                  schedule |-> Append(s.schedule,
                      [month |-> s.month + 1,
                       payment |-> Round2(payment_actual),
                       interest |-> Round2(interest_component),
                       principal |-> Round2(principal_component),
                       balance |-> Round2(FMax(remaining, FZero))]),
                  month |-> s.month + 1,
                  clamped |-> IF clamp THEN s.clamped \cup {s.month + 1} ELSE s.clamped,
                  pc |-> IF FailSafeHit(s.month + 1) THEN "broke" ELSE "while"]

\* The loop's test and, when it holds, one pass of the body.
Pass(s) ==
    IF s.pc # "while" THEN s
    ELSE IF LoopTest(s) THEN Body(s)
    ELSE [s EXCEPT !.pc = "exited"]

\* The loop from s on, for at most k tests: the first half of them, and the
\* rest from the state they leave.
RECURSIVE Passes(_, _)
Passes(s, k) ==
    IF s.pc # "while" \/ k <= 0 THEN s
    ELSE IF k = 1 THEN Pass(s)
    ELSE CHOOSE t \in { Passes(half, k - k \div 2) :
                           half \in { Passes(s, k \div 2) } } : TRUE

\* The while loop, to its end: month counts up from 0 and the test fails at
\* safety_cap, so that the test is made at most safety_cap + 1 times.  The
\* loop ends by its test ("exited"), by the fail-safe's break ("broke") or by
\* the HTTPException of the guard ("error").
While ==
    /\ pc = "while"
    /\ \E end \in { Passes(LoopState, safety_cap + 1) } :
           /\ pc' = end.pc
           /\ balance' = end.balance
           /\ total_interest' = end.total_interest
           /\ schedule' = end.schedule
           /\ month' = end.month
           /\ clamped' = end.clamped
           /\ IF end.pc = "error"
              THEN status' = 400 /\ error' = "NonAmortizingPayment"
              ELSE UNCHANGED <<status, error>>
    /\ UNCHANGED <<caller, payload, P, r, n, extra, growth, payment, result, prev>>

\* The running sum of sum(): total is the sum so far and c the compensation
\* of the rounding errors made in it.
SumAdd(acc, x) ==
    CHOOSE next \in
        { [total |-> t,
           c |-> IF FLe(FAbs(x), FAbs(acc.total))
                 THEN FAdd(acc.c, FAdd(FSub(acc.total, t), x))
                 ELSE FAdd(acc.c, FAdd(FSub(x, t), acc.total))] :
            t \in { FAdd(acc.total, x) } } : TRUE

\* The running sum acc after the payments of entries lo..hi, taken in order:
\* those of the first half, and the rest from the sum they leave.
RECURSIVE SumRange(_, _, _, _)
SumRange(items, acc, lo, hi) ==
    IF lo > hi THEN acc
    ELSE IF lo = hi THEN SumAdd(acc, items[lo].payment)
    ELSE CHOOSE res \in
           { SumRange(items, half, ((lo + hi) \div 2) + 1, hi) :
               half \in { SumRange(items, acc, lo, (lo + hi) \div 2) } } : TRUE

\* The values sum(item.payment for item in schedule) can have, the payments
\* being added one after the other from 0: the plain sum in Python before
\* 3.12; from 3.12 on the sum with its compensation added when that is
\* non-zero and finite.
SumOutcomes(items) ==
    UNION { {acc.total,
             IF acc.c # FZero /\ ~IsNaN(acc.c) /\ ~IsInf(acc.c)
             THEN FAdd(acc.total, acc.c) ELSE acc.total} :
            acc \in { SumRange(items, [total |-> FZero, c |-> FZero], 1, Len(items)) } }

LoanResult(total_payment) ==
    [monthly_payment |-> Round2(payment),
     total_payment |-> Round2(total_payment),
     total_interest |-> Round2(total_interest),
     payoff_months |-> Len(schedule),
     apr |-> Round3(Dec(payload.annual_rate)),
     schedule |-> schedule]

\* A float JSON has no text for: an infinity or the NaN.
NotJSON(x) == IsInf(x) \/ IsNaN(x)

\* After the loop: the totals and the LoanResult.  The route answers with
\* the result as JSON: it answers 500 when an amount of the result is an
\* infinity or the NaN.
Finish ==
    /\ pc \in {"exited", "broke"}
    /\ \E res \in { LoanResult(total) : total \in SumOutcomes(schedule) } :
         /\ result' = res
         /\ IF /\ caller = "http"
               /\ \/ NotJSON(res.monthly_payment) \/ NotJSON(res.total_payment)
                  \/ NotJSON(res.total_interest) \/ NotJSON(res.apr)
                  \/ \E i \in 1..Len(schedule) :
                        \/ NotJSON(schedule[i].payment) \/ NotJSON(schedule[i].interest)
                        \/ NotJSON(schedule[i].principal) \/ NotJSON(schedule[i].balance)
            THEN status' = 500 /\ error' = "ValueError"
            ELSE status' = 200 /\ error' = error
    /\ pc' = "done"
    /\ UNCHANGED <<caller, payload, locals, prev>>

Next == Validate \/ Enter \/ While \/ Finish

Spec == Init /\ [][Next]_vars

(***************************************************************************)
(* A client that sends one request after another.  Every call starts from  *)
(* fresh locals; the client keeps the answer it was given last.            *)
(***************************************************************************)
InitSeq ==
    /\ Init
    /\ caller = "http"
    /\ payload \in SeqInputs

NextRequest ==
    /\ pc \in {"done", "error", "rejected"}
    /\ prev' = [payload |-> payload, status |-> status, result |-> result,
                growth |-> growth]
    /\ payload' \in SeqInputs
    /\ pc' = "request"
    /\ status' = 0
    /\ error' = "none"
    /\ P' = FZero /\ r' = FZero /\ n' = 0 /\ extra' = FZero /\ growth' = FZero
    /\ payment' = FZero /\ balance' = FZero /\ total_interest' = FZero
    /\ schedule' = <<>> /\ month' = 0 /\ clamped' = {}
    /\ result' = None
    /\ UNCHANGED caller

NextSeq == Validate \/ Enter \/ While \/ Finish \/ NextRequest

SpecSeq == InitSeq /\ [][NextSeq]_vars
(***************************************************************************)
(* The claims.                                                             *)
(***************************************************************************)
Called == pc \notin {"request", "call", "rejected"}

Last == schedule[Len(schedule)]

ZeroInterestNoExtra ==
    /\ LoanInputValid(payload)
    /\ payload.annual_rate = 0
    /\ payload.extra_payment = 0

\* C1: for every input LoanInput accepts, the loop runs at most 3600 times, so
\* that month and the number of schedule entries never exceed 3600.
C1_AtMost3600Iterations ==
    LoanInputValid(payload) => month <= 3600 /\ Len(schedule) <= 3600

\* C2: in every result returned for a valid input the last entry's balance is
\* 0.00 and no entry before the last has a balance <= 0.
C2_BalanceDepletion ==
    (pc = "done" /\ LoanInputValid(payload) /\ Len(schedule) > 0) =>
        /\ FEq(Last.balance, FZero)
        /\ \A i \in 1..(Len(schedule) - 1) : FGt(schedule[i].balance, FZero)

\* C3 as stated: at rate 0 with no extra payment, payoff_months is
\* term_months for every valid input, and monthly_payment is the float
\* principal / term_months.
C3_ZeroInterestStraightLine ==
    (pc = "done" /\ ZeroInterestNoExtra) =>
        /\ result.payoff_months = payload.term_months
        /\ FEq(result.monthly_payment, FDiv(P, FFromInt(n)))

\* The least instalment and the largest principal of C3 as amended:
\* 0.005001 and 1e10.
InstalmentFloor == FDiv(FFromInt(5001), FFromInt(1000000))

PrincipalCeiling == DecLiteral(1000000, 0, 7)

\* P / n, the instalment of a loan without interest
Instalment == FDiv(P, FFromInt(n))

\* C3 as amended: at rate 0 with no extra payment, a term of at most 3600
\* months, an instalment principal / term_months of at least 0.005001 and a
\* principal of at most 1e10, payoff_months is term_months and
\* monthly_payment is principal / term_months rounded to cents.
C3_ZeroInterestWithinLimits ==
    (pc = "done" /\ ZeroInterestNoExtra
       /\ payload.term_months <= FailSafe
       /\ FLe(InstalmentFloor, Instalment)
       /\ FLe(P, PrincipalCeiling)) =>
        /\ result.payoff_months = payload.term_months
        /\ FEq(result.monthly_payment, Round2(Instalment))

\* The least instalment allowed is paid term_months times.
C3_Witness ==
    /\ pc = "done" /\ ZeroInterestNoExtra
    /\ payload.term_months = 1000
    /\ FLe(InstalmentFloor, Instalment) /\ FLt(Instalment, Dec(6))
    /\ result.payoff_months = 1000
    /\ FEq(result.monthly_payment, Dec(10))

\* C4: called with principal <= 0, term_months <= 0 or annual_rate < 0,
\* calculate_loan fails with InvalidInput (status 400) before the loop's first
\* iteration: no month is counted, no entry is made, no result is returned.
C4_InvalidInputRejected ==
    (Called /\ (payload.principal <= 0 \/ payload.term_months <= 0
                  \/ payload.annual_rate < 0)) =>
        /\ pc = "error" /\ error = "InvalidInput" /\ status = 400
        /\ month = 0 /\ schedule = <<>> /\ result = None

C4_Witness ==
    /\ pc = "error" /\ error = "InvalidInput" /\ status = 400
    /\ payload.principal = 0
    /\ caller = "direct"

\* C5: at a positive monthly rate the call fails with NonAmortizingPayment in
\* the first month in which payment - balance * r <= 0: the failing month is
\* counted but appends no entry and leaves balance and total_interest as the
\* months before left them, no result is returned, and a result is returned
\* only if the payment exceeded the interest from the first month on.
C5_NonAmortizingFailsBeforeUpdate ==
    /\ error = "NonAmortizingPayment" =>
          /\ FGt(r, FZero)
          /\ FLe(FSub(payment, FMul(balance, r)), FZero)
          /\ pc = "error" /\ status = 400
          /\ Len(schedule) = month - 1
          /\ IF month = 1
             THEN balance = P /\ total_interest = FZero
             ELSE FEq(Last.balance, Round2(balance))
          /\ result = None
    /\ (pc = "done" /\ FGt(r, FZero) /\ Len(schedule) > 0) =>
          /\ FGt(FSub(payment, FMul(P, r)), FZero)
          /\ \A i \in 1..Len(schedule) : FLe(FZero, schedule[i].principal)

C5_Witness ==
    /\ pc = "error" /\ error = "NonAmortizingPayment" /\ status = 400
    /\ FGt(r, FZero)
    /\ month = 1 /\ schedule = <<>> /\ result = None

\* Two answered requests that differ only in a larger extra payment, at a
\* positive rate.
LargerExtra ==
    /\ pc = "done" /\ status = 200 /\ prev.status = 200
    /\ LoanInputValid(payload)
    /\ payload.annual_rate > 0
    /\ prev.payload.principal = payload.principal
    /\ prev.payload.annual_rate = payload.annual_rate
    /\ prev.payload.term_months = payload.term_months
    /\ prev.payload.extra_payment < payload.extra_payment

\* C6 as stated: a larger extra payment returns a strictly smaller
\* payoff_months and a strictly smaller total_interest.
C6_StrictlyFaster ==
    LargerExtra =>
        /\ result.payoff_months < prev.result.payoff_months
        /\ FLt(result.total_interest, prev.result.total_interest)

\* C6 as amended: a larger extra payment returns a payoff_months and a
\* total_interest that are not larger.
C6_NotSlower ==
    LargerExtra =>
        /\ result.payoff_months <= prev.result.payoff_months
        /\ FLe(result.total_interest, prev.result.total_interest)

C6_Witness ==
    /\ LargerExtra
    /\ result.payoff_months < prev.result.payoff_months
    /\ FLt(result.total_interest, prev.result.total_interest)

\* C7 as stated: every entry but the last has the scheduled payment; the
\* clamp is taken only in the month of the last entry, and the last payment
\* is then smaller than the scheduled one.
C7_ClampPaysLess ==
    pc = "done" =>
        /\ \A i \in 1..(Len(schedule) - 1) :
              FEq(schedule[i].payment, result.monthly_payment)
        /\ clamped \subseteq {Len(schedule)}
        /\ clamped # {} => FLt(Last.payment, result.monthly_payment)

\* C7 as amended: every entry but the last has the scheduled payment; the
\* clamp is taken only in the month of the last entry, it leaves a balance of
\* exactly 0, and the last payment is then not larger than the scheduled one.
C7_ClampPaysNoMore ==
    /\ clamped # {} => clamped = {month} /\ balance = FZero /\ Len(schedule) = month
    /\ pc = "done" =>
        /\ \A i \in 1..(Len(schedule) - 1) :
              FEq(schedule[i].payment, result.monthly_payment)
        /\ clamped \subseteq {Len(schedule)}
        /\ clamped # {} => FLe(Last.payment, result.monthly_payment)

C7_Witness ==
    /\ pc = "done"
    /\ Len(schedule) = 3
    /\ clamped = {3}
    /\ payload.annual_rate > 0
    /\ FLt(Last.payment, result.monthly_payment)
    /\ FEq(schedule[2].payment, result.monthly_payment)

\* C8: for a valid input with term_months <= 3000 the fail-safe never ends
\* the loop and month never exceeds 3600.
C8_FailSafeOnlyBeyond3000 ==
    (LoanInputValid(payload) /\ payload.term_months <= 3000) =>
        pc # "broke" /\ month <= 3600

\* A loan over 3000 months whose balance is still owed when month reaches
\* the safety cap of 3600: the loop ends by its test.
C8_Witness ==
    /\ pc = "exited"
    /\ LoanInputValid(payload)
    /\ payload.term_months = FailSafe - SafetyMargin
    /\ month = FailSafe /\ month = safety_cap
    /\ Len(schedule) = FailSafe
    /\ FGt(balance, Tolerance)

\* C9: called with a negative extra_payment and otherwise valid inputs,
\* calculate_loan fails with InvalidInput and computes no schedule.
C9_NegativeExtraRejected ==
    (Called /\ payload.extra_payment < 0 /\ payload.principal > 0
       /\ payload.term_months > 0 /\ payload.annual_rate >= 0) =>
        /\ pc = "error" /\ error = "InvalidInput"
        /\ schedule = <<>> /\ result = None

\* C10: for a valid input at a positive rate the NonAmortizingPayment error
\* is never raised.
C10_NonAmortizingUnreachable ==
    (LoanInputValid(payload) /\ payload.annual_rate > 0) =>
        error # "NonAmortizingPayment"
====
